---- MODULE Spec2Model ----
(***************************************************************************)
(* Interaction control pipeline of my-christmas-tree:                      *)
(*   GestureControl.tsx  posture classifier, per-frame gesture pipeline,   *)
(*                       asynchronous set-up and effect clean-up           *)
(*   App.tsx             shared physics record, pointer drag, mode state   *)
(*   Scene.tsx           PhysicsHandler (zoom dolly) render tick           *)
(*   LuxuryTree.tsx      rotation integrator render tick                   *)
(*                                                                         *)
(* Numbers.  The program computes in IEEE doubles; the model computes in   *)
(* fixed point with one unit = 0.00001 (1e-5), products rounded toward     *)
(* zero.  Landmark coordinates, wrist deltas, hand sizes, radians and      *)
(* world units all use that unit, so 0.0001 is 10, 0.005 is 500, 0.01 is   *)
(* 1000.  Factors (0.9, 0.1, 0.95, 1.1, 0.2) are kept as percentages or    *)
(* ratios of integers.                                                     *)
(***************************************************************************)
EXTENDS Integers, Sequences, FiniteSets, TLC

\* ------------------------------------------------------------------------
\* Program constants (fixed point, unit 1e-5)
\* ------------------------------------------------------------------------
Epsilon == 10
DeadzoneRot == 500
DeadzoneZoom == 1000
AlphaDecayRot == 90
AlphaAttackRot == 10
AlphaDecayZoom == 95
AlphaAttackZoom == 5
ZoomKeep == 90
ZoomGain == 10
Friction == 95
VelocityEpsilon == 10
ZoomEpsilon == 10
GestureRotSensitivity == 8
GestureZoomSensitivity == 80
MouseSensitivity == 500
ExtendedMinCount == 2
CurledMinCount == 3
InitialRotationSpeed == 50000
AutoSpeedPercent == 20

\* null in lastWristX / lastHandSize (coordinates and sizes are never negative)
None == -1

\* ------------------------------------------------------------------------
\* Arithmetic helpers
\* ------------------------------------------------------------------------
Abs(x) == IF x < 0 THEN -x ELSE x

\* quotient rounded toward zero (d > 0)
TruncDiv(n, d) == IF n >= 0 THEN n \div d ELSE -((-n) \div d)

\* integer Newton iteration from x >= floor(sqrt(n)), n > 0
RECURSIVE SqrtIter(_, _)
SqrtIter(n, x) ==
    LET y == (x + n \div x) \div 2
    IN  IF y < x THEN SqrtIter(n, y) ELSE x

\* Math.sqrt on fixed-point squares: the integer square root (n < 2^31)
Sqrt(n) == IF n = 0 THEN 0 ELSE SqrtIter(n, 46340)

\* Math.pow(x, 2)
Pow2(x) == x * x

getDist(p1, p2) == Sqrt(Pow2(p1.x - p2.x) + Pow2(p1.y - p2.y))

\* ------------------------------------------------------------------------
\* Posture classifier
\* ------------------------------------------------------------------------
tips == <<8, 12, 16, 20>>
pips == <<6, 10, 14, 18>>

\* mutant: the extension test admits a tip at exactly 1.1 x the joint distance
FingerExtendedInclusive(dTip, dPip) == 10 * dTip >= 11 * dPip

\* dTip > dPip * 1.1, the factor 1.1 as 11/10
FingerExtended(dTip, dPip) == 10 * dTip > 11 * dPip

\* mutant: the curl test admits a tip exactly as far as the joint
FingerCurledInclusive(dTip, dPip) == dTip <= dPip

\* dTip < dPip
FingerCurled(dTip, dPip) == dTip < dPip

RECURSIVE ExtendedLoop(_, _, _)
ExtendedLoop(landmarks, i, extendedCount) ==
    IF i > 4 THEN extendedCount
    ELSE LET dTip == getDist(landmarks[0], landmarks[tips[i]])
             dPip == getDist(landmarks[0], landmarks[pips[i]])
         IN  ExtendedLoop(landmarks, i + 1,
                 IF FingerExtended(dTip, dPip) THEN extendedCount + 1 ELSE extendedCount)

\* mutant: one extended finger makes the hand open
ExtendedEnoughOne(extendedCount) == extendedCount >= 1

ExtendedEnough(extendedCount) == extendedCount >= ExtendedMinCount

isHandExtended(landmarks) == ExtendedEnough(ExtendedLoop(landmarks, 1, 0))

RECURSIVE CurledLoop(_, _, _)
CurledLoop(landmarks, i, curledCount) ==
    IF i > 4 THEN curledCount
    ELSE LET dTip == getDist(landmarks[0], landmarks[tips[i]])
             dPip == getDist(landmarks[0], landmarks[pips[i]])
         IN  CurledLoop(landmarks, i + 1,
                 IF FingerCurled(dTip, dPip) THEN curledCount + 1 ELSE curledCount)

CurledEnough(curledCount) == curledCount >= CurledMinCount

isHandClosed(landmarks) == CurledEnough(CurledLoop(landmarks, 1, 0))

\* ------------------------------------------------------------------------
\* Recognizer results: hands built from 21 landmarks (input enumeration)
\* ------------------------------------------------------------------------
\* finger poses: tip height above the wrist; the joint sits 12000 above it
TipHeight(pose) ==
    CASE pose = "ext"  -> 20000     \* tip well beyond 1.1 x joint distance
      [] pose = "edge" -> 13200     \* tip at exactly 1.1 x joint (finger 1)
      [] pose = "mid"  -> 12600     \* between joint and 1.1 x joint
      [] pose = "eq"   -> 12000     \* tip exactly as far as the joint
      [] pose = "curl" -> 8000      \* tip closer than the joint

Poses == {"ext", "edge", "mid", "eq", "curl"}

\* horizontal offset of finger i from the wrist (finger 1 straight above it)
FingerX(i) == (i - 1) * 3000

Point(px, py) == [x |-> px, y |-> py]

\* a hand with the wrist at (wx, 80000), wrist-to-middle-MCP length `size`
\* and finger i in pose poses[i]
MkHand(wx, size, poses) ==
    [k \in 0..20 |->
        IF k = 0 THEN Point(wx, 80000)
        ELSE IF k = 9 THEN Point(wx, 80000 - size)
        ELSE IF \E i \in 1..4 : pips[i] = k
             THEN LET i == CHOOSE j \in 1..4 : pips[j] = k
                  IN  Point(wx + FingerX(i), 80000 - 12000)
        ELSE IF \E i \in 1..4 : tips[i] = k
             THEN LET i == CHOOSE j \in 1..4 : tips[j] = k
                  IN  Point(wx + FingerX(i), 80000 - TipHeight(poses[i]))
        ELSE Point(wx - 4000, 80000 - 6000)]

AllPoses(p) == [i \in 1..4 |-> p]

OpenHandPoses == AllPoses("ext")
FistPoses == AllPoses("curl")
NeutralPoses == AllPoses("mid")

\* recognizer result of one frame
Throw == [kind |-> "throw"]
NoHand == [kind |-> "nohand"]
Hand(lm) == [kind |-> "hand", landmarks |-> lm]

\* ------------------------------------------------------------------------
\* Model bounds
\* ------------------------------------------------------------------------
MaxFrames == 4
MaxTicks == 2
MaxPointerEvents == 2
MaxToggles == 1
ObjIds == 3

\* ------------------------------------------------------------------------
\* State
\* ------------------------------------------------------------------------
VARIABLES
    \* GestureControl: effect closure and refs
    isActive,              \* closure flag of the effect
    setupPc,               \* where setupMediaPipe / startWebcam is suspended
    recognizer,            \* the GestureRecognizer resource: none / open / closed
    gestureRecognizerRef,  \* TRUE iff gestureRecognizerRef.current is set
    videoRef,              \* TRUE iff videoRef.current (and canvasRef.current) is set
    srcObject,             \* TRUE iff video.srcObject holds the stream
    stream,                \* camera MediaStream: none / live / stopped
    listener,              \* 'loadeddata' listener attached
    loadedFired,           \* the video element has fired 'loadeddata'
    rafCount,              \* predictWebcam callbacks scheduled by requestAnimationFrame
    requestRef,            \* requestRef.current: zero / pending / ran
    isLoaded, error,
    \* GestureControl: per-frame refs
    wasTracking, lastWristX, lastHandSize, smoothedRotDelta, smoothedZoomDelta,
    \* App
    treeState,             \* [mode, rotationSpeed, obj]; obj tags the state object
    physicsRef,            \* [isInteracting, delta, velocity, zoomDelta]
    pointerDown,           \* the pointer is pressed on the container
    \* observation
    lastStep,              \* what the latest step did (callbacks, amounts applied)
    lifecycleLog,          \* interaction-start / interaction-end callbacks, in order of invocation
    handSeen,              \* the latest classified frame showed a hand
    lastModeEvent,         \* latest event on the mode: a gesture request or the button
    fresh,                 \* [rot, zoom]: field written by a producer since it was last applied
    dragSeen,              \* [last, nonZero]: rotation deltas written by pressed drag events
    written,               \* [on, rot, zoom]: producer writes to delta / zoomDelta since the
                           \* latest tick, kept when `on`
    frames, ticks, pointerEvents, toggles

gestureVars == <<isActive, setupPc, recognizer, gestureRecognizerRef, videoRef, srcObject,
                 stream, listener, loadedFired, rafCount, requestRef, isLoaded, error>>
frameVars == <<wasTracking, lastWristX, lastHandSize, smoothedRotDelta, smoothedZoomDelta>>
appVars == <<treeState, physicsRef, pointerDown>>
obsVars == <<lastStep, lifecycleLog, handSeen, lastModeEvent, fresh, dragSeen, written>>
countVars == <<frames, ticks, pointerEvents, toggles>>
vars == <<gestureVars, frameVars, appVars, obsVars, countVars>>

\* ------------------------------------------------------------------------
\* App.tsx: handlers on the shared physics record and the tree state
\* ------------------------------------------------------------------------
NextObj(obj) == (obj + 1) % ObjIds

\* mutant: every request builds a new state object
handleGestureModeChangeAlways(prev, mode) ==
    [prev EXCEPT !.mode = mode, !.obj = NextObj(prev.obj)]

handleGestureModeChange(prev, mode) ==
    IF prev.mode = mode THEN prev
    ELSE [prev EXCEPT !.mode = mode, !.obj = NextObj(prev.obj)]

toggleModeState(prev) ==
    [prev EXCEPT !.mode = IF prev.mode = "FORMED" THEN "CHAOS" ELSE "FORMED",
                 !.obj = NextObj(prev.obj)]

handleGestureInteractionStart(p) ==
    [p EXCEPT !.isInteracting = TRUE, !.velocity = 0]

\* mutant: the end handler leaves the zoom delta in place
handleGestureInteractionEndKeepsZoom(p) ==
    [p EXCEPT !.isInteracting = FALSE, !.delta = 0]

handleGestureInteractionEnd(p) ==
    [p EXCEPT !.isInteracting = FALSE, !.delta = 0, !.zoomDelta = 0]

\* mutant: rotation moves add up until a tick consumes them
handleGestureRotationMoveAccumulates(p, rawDelta) ==
    LET finalDelta == (-rawDelta) * GestureRotSensitivity
    IN  [p EXCEPT !.delta = p.delta + finalDelta, !.velocity = finalDelta]

handleGestureRotationMove(p, rawDelta) ==
    LET finalDelta == (-rawDelta) * GestureRotSensitivity
    IN  [p EXCEPT !.delta = finalDelta, !.velocity = finalDelta]

\* mutant: the zoom delta keeps the sign of the hand-scale delta
handleGestureZoomMoveSameSign(p, scaleDelta) ==
    [p EXCEPT !.zoomDelta = scaleDelta * GestureZoomSensitivity]

handleGestureZoomMove(p, scaleDelta) ==
    [p EXCEPT !.zoomDelta = (-scaleDelta) * GestureZoomSensitivity]

\* mutant: the release also stops the rotation
dragHandlerReleaseStops(p, dx, down) ==
    IF down
    THEN [p EXCEPT !.isInteracting = down,
                   !.delta = dx * MouseSensitivity,
                   !.velocity = dx * MouseSensitivity]
    ELSE [p EXCEPT !.isInteracting = down, !.delta = 0, !.velocity = 0]

\* useDrag handler; dx in pixels, mouseSensitivity 0.005
dragHandler(p, dx, down) ==
    IF down
    THEN [p EXCEPT !.isInteracting = down,
                   !.delta = dx * MouseSensitivity,
                   !.velocity = dx * MouseSensitivity]
    ELSE [p EXCEPT !.isInteracting = down, !.delta = 0]

\* ------------------------------------------------------------------------
\* GestureControl.tsx: per-channel filters
\* ------------------------------------------------------------------------
\* mutant: an input of exactly the threshold passes the deadzone
DeadzoneInclusive(raw, threshold) == IF Abs(raw) >= threshold THEN raw ELSE 0

\* Math.abs(raw) > threshold ? raw : 0
Deadzone(raw, threshold) == IF Abs(raw) > threshold THEN raw ELSE 0

\* smoothed * alpha + effective * (1 - alpha), alpha in percent
Blend(smoothed, effective, alpha) ==
    TruncDiv(smoothed * alpha + effective * (100 - alpha), 100)

\* mutant: with no input the rotation filter holds its value
RotAlphaHold(effectiveDelta) == IF effectiveDelta = 0 THEN 100 ELSE AlphaAttackRot

RotAlpha(effectiveDelta) == IF effectiveDelta = 0 THEN AlphaDecayRot ELSE AlphaAttackRot

SmoothRot(smoothed, effectiveDelta) == Blend(smoothed, effectiveDelta, RotAlpha(effectiveDelta))

\* computed by the code and not used by the update that follows it
ZoomAlpha(effectiveDelta) == IF effectiveDelta = 0 THEN AlphaDecayZoom ELSE AlphaAttackZoom

\* smoothed * 0.9 + effective * 0.1
SmoothZoom(smoothed, effectiveDelta) ==
    TruncDiv(smoothed * ZoomKeep + effectiveDelta * ZoomGain, 100)

\* mutant: the smoothed value is emitted on every frame
EmitsAlways(smoothed) == TRUE

\* Math.abs(smoothed) > 0.0001
Emits(smoothed) == Abs(smoothed) > Epsilon

\* mutant: the tracking flag is not raised when engagement starts
MarkTrackingForgotten == FALSE

\* wasTracking.current = true
MarkTracking == TRUE

\* mutant: the rotation baseline starts from 0 instead of the frame's wrist x
StartBaselineXStale(wristX) == 0

\* baselines captured on the frame engagement starts
StartBaselineX(wristX) == wristX
StartBaselineSize(handSize) == handSize

\* mutant: a hand that is neither open nor closed counts as a fist
ModeRequestNeutralForms(closed, open) ==
    IF open THEN "CHAOS" ELSE "FORMED"

\* the mode a classified frame requests
ModeRequest(closed, open) ==
    IF closed /\ ~open THEN "FORMED"
    ELSE IF open THEN "CHAOS"
    ELSE "none"

\* !video || !canvas || !recognizer: the invocation returns at once
ReturnsEarly(video, rec) == ~video \/ ~rec

\* ------------------------------------------------------------------------
\* GestureControl.tsx: predictWebcam
\*   res       the recognizer's result for this frame
\*   rafLeft   scheduled callbacks left once this invocation has started
\*   refNow    requestRef.current as this invocation sees it
\* ------------------------------------------------------------------------
\* a producer's write to a field of the physics record: the handler and its argument
Write(handler, arg) == [by |-> handler, arg |-> arg]

NoWrites(on) == [on |-> on, rot |-> <<>>, zoom |-> <<>>]

\* the record of writes after this step's writes to delta and to zoomDelta
Noted(rotWrites, zoomWrites) ==
    IF written.on
    THEN [written EXCEPT !.rot = @ \o rotWrites, !.zoom = @ \o zoomWrites]
    ELSE written

FrameStep(kind, start, end, rawX, rotCalled, rot, rawSize, zoomCalled, zoom, mode, repeat, lm) ==
    [act |-> "frame", kind |-> kind, start |-> start, end |-> end,
     rawX |-> rawX, rotCalled |-> rotCalled, rot |-> rot,
     rawSize |-> rawSize, zoomCalled |-> zoomCalled, zoom |-> zoom,
     mode |-> mode, repeat |-> repeat, landmarks |-> lm]

\* a frame that invoked no callback
QuietFrame(kind) ==
    FrameStep(kind, FALSE, FALSE, 0, FALSE, 0, 0, FALSE, 0, "none", FALSE, <<>>)

\* mutant: an invocation requests two animation frames
ScheduleTwice(rafLeft) ==
    /\ rafCount' = rafLeft + 2
    /\ requestRef' = "pending"

Schedule(rafLeft) ==
    /\ rafCount' = rafLeft + 1
    /\ requestRef' = "pending"

\* the hand-present branch, given the frame's hand size and mode request
HandFrame(landmarks, handSize, mode, rafLeft) ==
    LET wrist == landmarks[0]
        starting == ~wasTracking
        p1 == IF starting THEN handleGestureInteractionStart(physicsRef) ELSE physicsRef
        sRot0 == IF starting THEN 0 ELSE smoothedRotDelta
        sZoom0 == IF starting THEN 0 ELSE smoothedZoomDelta
        lastX == IF starting THEN StartBaselineX(wrist.x) ELSE lastWristX
        lastSize == IF starting THEN StartBaselineSize(handSize) ELSE lastHandSize
        \* 1. rotation
        rawDeltaX == wrist.x - lastX
        effRot == Deadzone(rawDeltaX, DeadzoneRot)
        sRot1 == IF lastX # None THEN SmoothRot(sRot0, effRot) ELSE sRot0
        emitRot == lastX # None /\ Emits(sRot1)
        p2 == IF emitRot THEN handleGestureRotationMove(p1, sRot1) ELSE p1
        \* 2. zoom
        deltaSize == handSize - lastSize
        effZoom == Deadzone(deltaSize, DeadzoneZoom)
        sZoom1 == IF lastSize # None THEN SmoothZoom(sZoom0, effZoom) ELSE sZoom0
        emitZoom == lastSize # None /\ Emits(sZoom1)
        p3 == IF emitZoom THEN handleGestureZoomMove(p2, sZoom1) ELSE p2
    IN  /\ wasTracking' = IF starting THEN MarkTracking ELSE wasTracking
        /\ smoothedRotDelta' = sRot1
        /\ smoothedZoomDelta' = sZoom1
        /\ lastWristX' = wrist.x
        /\ lastHandSize' = handSize
        /\ physicsRef' = p3
        /\ treeState' = IF mode = "none" THEN treeState
                        ELSE handleGestureModeChange(treeState, mode)
        /\ lifecycleLog' = IF starting THEN Append(lifecycleLog, "start") ELSE lifecycleLog
        /\ handSeen' = TRUE
        /\ lastModeEvent' = IF mode = "none" THEN lastModeEvent ELSE mode
        /\ fresh' = [rot |-> fresh.rot \/ emitRot, zoom |-> fresh.zoom \/ emitZoom]
        /\ written' = Noted(IF emitRot THEN <<Write("rotationMove", sRot1)>> ELSE <<>>,
                            IF emitZoom THEN <<Write("zoomMove", sZoom1)>> ELSE <<>>)
        /\ lastStep' = FrameStep("hand", starting, FALSE,
                                 rawDeltaX, emitRot, IF emitRot THEN sRot1 ELSE 0,
                                 deltaSize, emitZoom, IF emitZoom THEN sZoom1 ELSE 0,
                                 mode, mode # "none" /\ lastModeEvent = mode, landmarks)
        /\ Schedule(rafLeft)

PredictHand(res, rafLeft) ==
    HandFrame(res.landmarks,
              getDist(res.landmarks[0], res.landmarks[9]),
              ModeRequest(isHandClosed(res.landmarks), isHandExtended(res.landmarks)),
              rafLeft)

\* mutant: a lost hand leaves the baseline in place
ClearBaselineKept(last) == last

\* lastWristX.current = null, lastHandSize.current = null
ClearBaseline(last) == None

PredictNoHand(rafLeft) ==
    /\ wasTracking' = FALSE
    /\ physicsRef' = IF wasTracking THEN handleGestureInteractionEnd(physicsRef)
                     ELSE physicsRef
    /\ lastWristX' = ClearBaseline(lastWristX)
    /\ lastHandSize' = ClearBaseline(lastHandSize)
    /\ smoothedRotDelta' = 0
    /\ smoothedZoomDelta' = 0
    /\ lifecycleLog' = IF wasTracking THEN Append(lifecycleLog, "end") ELSE lifecycleLog
    /\ handSeen' = FALSE
    /\ fresh' = IF wasTracking THEN [rot |-> TRUE, zoom |-> TRUE] ELSE fresh
    /\ written' = IF wasTracking
                  THEN Noted(<<Write("interactionEnd", 0)>>, <<Write("interactionEnd", 0)>>)
                  ELSE written
    /\ lastStep' = FrameStep("nohand", FALSE, wasTracking, 0, FALSE, 0, 0, FALSE, 0,
                             "none", FALSE, <<>>)
    /\ UNCHANGED <<treeState, lastModeEvent>>
    /\ Schedule(rafLeft)

\* mutant: a failed recognition is handled like a lost hand, without the callbacks
InferenceErrorResets(rafLeft) ==
    /\ wasTracking' = FALSE
    /\ lastWristX' = None
    /\ lastHandSize' = None
    /\ smoothedRotDelta' = 0
    /\ smoothedZoomDelta' = 0
    /\ lastStep' = QuietFrame("throw")
    /\ UNCHANGED <<treeState, physicsRef, lifecycleLog, handSeen, lastModeEvent, fresh,
                   written>>
    /\ Schedule(rafLeft)

\* recognizeForVideo throws: the catch block schedules the next frame and returns
InferenceError(rafLeft) ==
    /\ Schedule(rafLeft)
    /\ lastStep' = QuietFrame("throw")
    /\ UNCHANGED <<frameVars, treeState, physicsRef, lifecycleLog, handSeen,
                   lastModeEvent, fresh, written>>

predictWebcam(res, rafLeft, refNow) ==
    /\ frames' = frames + 1
    /\ UNCHANGED <<ticks, pointerEvents, toggles, pointerDown, dragSeen>>
    /\ UNCHANGED <<isActive, setupPc, recognizer, gestureRecognizerRef, videoRef,
                   srcObject, stream, listener, isLoaded, error>>
    /\ IF ReturnsEarly(videoRef, gestureRecognizerRef)
       THEN /\ rafCount' = rafLeft
            /\ requestRef' = refNow
            /\ lastStep' = QuietFrame("early")
            /\ UNCHANGED <<frameVars, treeState, physicsRef, lifecycleLog, handSeen,
                           lastModeEvent, fresh, written>>
       ELSE IF res.kind = "throw"
       THEN InferenceError(rafLeft)
       ELSE IF res.kind = "hand"
       THEN PredictHand(res, rafLeft)
       ELSE PredictNoHand(rafLeft)

\* ------------------------------------------------------------------------
\* GestureControl.tsx: asynchronous set-up, camera start, effect clean-up
\* ------------------------------------------------------------------------
Step(name) == [act |-> name]

KeepFrameState ==
    UNCHANGED <<frameVars, appVars, lifecycleLog, handSeen, lastModeEvent, fresh, dragSeen,
                written, countVars>>

\* FilesetResolver.forVisionTasks resolves
VisionResolved ==
    /\ setupPc = "awaitVision"
    /\ setupPc' = IF ~isActive THEN "returned" ELSE "awaitCreate"
    /\ lastStep' = Step("visionResolved")
    /\ UNCHANGED <<isActive, recognizer, gestureRecognizerRef, videoRef, srcObject, stream,
                   listener, loadedFired, rafCount, requestRef, isLoaded, error>>
    /\ KeepFrameState

\* FilesetResolver.forVisionTasks or createFromOptions rejects: the catch block
SetupFailed ==
    /\ setupPc \in {"awaitVision", "awaitCreate"}
    /\ setupPc' = "failed"
    /\ error' = IF isActive THEN "Failed to load gesture AI" ELSE error
    /\ lastStep' = Step("setupFailed")
    /\ UNCHANGED <<isActive, recognizer, gestureRecognizerRef, videoRef, srcObject, stream,
                   listener, loadedFired, rafCount, requestRef, isLoaded>>
    /\ KeepFrameState

\* GestureRecognizer.createFromOptions resolves; when still active the recognizer
\* is published and startWebcam runs up to its await of getUserMedia
RecognizerCreated ==
    /\ setupPc = "awaitCreate"
    /\ IF ~isActive
       THEN /\ recognizer' = "closed"
            /\ setupPc' = "returned"
            /\ UNCHANGED <<gestureRecognizerRef, isLoaded>>
       ELSE /\ recognizer' = "open"
            /\ gestureRecognizerRef' = TRUE
            /\ isLoaded' = TRUE
            /\ setupPc' = "awaitCamera"
    /\ lastStep' = Step("recognizerCreated")
    /\ UNCHANGED <<isActive, videoRef, srcObject, stream, listener, loadedFired,
                   rafCount, requestRef, error>>
    /\ KeepFrameState

\* getUserMedia resolves with a live stream
CameraGranted ==
    /\ setupPc = "awaitCamera"
    /\ setupPc' = "done"
    /\ stream' = "live"
    /\ srcObject' = IF videoRef THEN TRUE ELSE srcObject
    /\ listener' = IF videoRef THEN TRUE ELSE listener
    /\ lastStep' = Step("cameraGranted")
    /\ UNCHANGED <<isActive, recognizer, gestureRecognizerRef, videoRef, loadedFired,
                   rafCount, requestRef, isLoaded, error>>
    /\ KeepFrameState

\* mutant: a denied camera is only logged
CameraDeniedSilent ==
    /\ setupPc = "awaitCamera"
    /\ setupPc' = "failed"
    /\ lastStep' = Step("cameraDenied")
    /\ UNCHANGED <<isActive, recognizer, gestureRecognizerRef, videoRef, srcObject, stream,
                   listener, loadedFired, rafCount, requestRef, isLoaded, error>>
    /\ KeepFrameState

\* getUserMedia rejects
CameraDenied ==
    /\ setupPc = "awaitCamera"
    /\ setupPc' = "failed"
    /\ error' = "Camera access denied"
    /\ lastStep' = Step("cameraDenied")
    /\ UNCHANGED <<isActive, recognizer, gestureRecognizerRef, videoRef, srcObject, stream,
                   listener, loadedFired, rafCount, requestRef, isLoaded>>
    /\ KeepFrameState

\* mutant: the clean-up only lowers the flag and releases nothing
CleanupFlagOnly ==
    /\ isActive' = FALSE
    /\ UNCHANGED <<rafCount, requestRef, stream, srcObject, recognizer, gestureRecognizerRef>>

\* the effect's clean-up function
Cleanup ==
    /\ isActive' = FALSE
    /\ rafCount' = IF requestRef = "pending" THEN rafCount - 1 ELSE rafCount
    /\ requestRef' = IF requestRef = "pending" THEN "stale" ELSE requestRef
    /\ stream' = IF videoRef /\ srcObject THEN "stopped" ELSE stream
    /\ srcObject' = IF videoRef /\ srcObject THEN FALSE ELSE srcObject
    /\ recognizer' = IF gestureRecognizerRef THEN "closed" ELSE recognizer
    /\ gestureRecognizerRef' = FALSE

\* unmount: the clean-up runs once, with the element refs still attached
Teardown ==
    /\ isActive
    /\ Cleanup
    /\ lastStep' = Step("teardown")
    /\ UNCHANGED <<setupPc, videoRef, listener, loadedFired, isLoaded, error>>
    /\ KeepFrameState

\* after the unmount React clears the refs of the removed video and canvas
DetachRefs ==
    /\ ~isActive
    /\ videoRef
    /\ videoRef' = FALSE
    /\ lastStep' = Step("detachRefs")
    /\ UNCHANGED <<isActive, setupPc, recognizer, gestureRecognizerRef, srcObject, stream,
                   listener, loadedFired, rafCount, requestRef, isLoaded, error>>
    /\ KeepFrameState

\* ------------------------------------------------------------------------
\* Frame sources: the 'loadeddata' listener and requestAnimationFrame
\* ------------------------------------------------------------------------
WristXs == {40000, 42000}
HandSizes == {15000, 18000}
FramePoses == {OpenHandPoses, FistPoses, NeutralPoses}

FrameResults ==
    {Throw, NoHand} \cup
    {Hand(MkHand(wx, size, poses)) : wx \in WristXs, size \in HandSizes, poses \in FramePoses}

\* the video element delivers its first frame
LoadedData(results) ==
    /\ frames < MaxFrames
    /\ listener /\ srcObject /\ stream = "live" /\ ~loadedFired
    /\ loadedFired' = TRUE
    /\ \E res \in results : predictWebcam(res, rafCount, requestRef)

\* a scheduled animation-frame callback runs, at most `limit` frames in all
RafCallback(limit, results) ==
    /\ frames < limit
    /\ rafCount > 0
    /\ UNCHANGED loadedFired
    /\ \E res \in results : predictWebcam(res, rafCount - 1, "stale")

AnimationFrame(results) == RafCallback(MaxFrames, results)

\* ------------------------------------------------------------------------
\* App.tsx: pointer drag and the mode button
\* ------------------------------------------------------------------------
DragDxs == {-3, 0, 4}

\* the rotation deltas the pressed events of the current drag have written so far
SeenAfter(p, down) ==
    IF ~down THEN dragSeen
    ELSE [last |-> p.delta,
          nonZero |-> IF p.delta # 0 THEN p.delta
                      ELSE IF pointerDown THEN dragSeen.nonZero ELSE 0]

\* one event of the drag recognizer, at most `limit` of them
Drag(limit, dx, down) ==
    /\ pointerEvents < limit
    /\ pointerEvents' = pointerEvents + 1
    /\ pointerDown' = down
    /\ physicsRef' = dragHandler(physicsRef, dx, down)
    /\ dragSeen' = SeenAfter(physicsRef', down)
    /\ fresh' = [fresh EXCEPT !.rot = TRUE]
    /\ written' = Noted(<<IF down THEN Write("drag", dx) ELSE Write("release", 0)>>, <<>>)
    /\ lastStep' = [act |-> "pointer", down |-> down, dx |-> dx]
    /\ UNCHANGED <<gestureVars, frameVars, treeState, lifecycleLog, handSeen, lastModeEvent,
                   frames, ticks, toggles>>

PointerEvent(dx, down) == Drag(MaxPointerEvents, dx, down)

PointerPress == ~pointerDown /\ PointerEvent(0, TRUE)

PointerMove == pointerDown /\ \E dx \in DragDxs : PointerEvent(dx, TRUE)

PointerRelease == pointerDown /\ PointerEvent(0, FALSE)

ToggleMode ==
    /\ toggles < MaxToggles
    /\ toggles' = toggles + 1
    /\ treeState' = toggleModeState(treeState)
    /\ lastModeEvent' = "toggle"
    /\ lastStep' = Step("toggle")
    /\ UNCHANGED <<gestureVars, frameVars, physicsRef, pointerDown, lifecycleLog, handSeen,
                   fresh, dragSeen, written, frames, ticks, pointerEvents>>

\* ------------------------------------------------------------------------
\* Scene.tsx PhysicsHandler and LuxuryTree.tsx useFrame: one render tick
\* ------------------------------------------------------------------------
\* Math.abs(zoomD) > 0.0001
ZoomApplies(zoomD) == Abs(zoomD) > ZoomEpsilon

\* displacement of the camera along its forward direction
CameraMove(zoomD) == IF ZoomApplies(zoomD) THEN -zoomD ELSE 0

ConsumeZoom(zoomD) == IF ZoomApplies(zoomD) THEN 0 ELSE zoomD

\* treeState.rotationSpeed * 0.2
AutoSpeed(rotationSpeed) == TruncDiv(rotationSpeed * AutoSpeedPercent, 100)

\* mutant: friction without the snap to zero
DecayVelocityNoSnap(velocity) == TruncDiv(velocity * Friction, 100)

\* velocity *= 0.95, snapped to 0 below 0.0001
DecayVelocity(velocity) ==
    LET v == TruncDiv(velocity * Friction, 100)
    IN  IF Abs(v) < VelocityEpsilon THEN 0 ELSE v

\* mutant: the ambient rotation is added while interacting too
RotationStepAlwaysAmbient(p, rotationSpeed, dtMs) ==
    (IF p.isInteracting THEN p.delta ELSE p.velocity)
        + TruncDiv(AutoSpeed(rotationSpeed) * dtMs, 1000)

\* the change of rotation.y on this tick, dt in milliseconds
RotationStep(p, rotationSpeed, dtMs) ==
    IF p.isInteracting THEN p.delta
    ELSE p.velocity + TruncDiv(AutoSpeed(rotationSpeed) * dtMs, 1000)

\* mutant: the applied delta is left in the record
ConsumeDeltaKept(p) == p.delta

\* physicsState.current.delta = 0 after it was applied
ConsumeDelta(p) == IF p.isInteracting THEN 0 ELSE p.delta

IntegrateVelocity(p) == IF p.isInteracting THEN p.velocity ELSE DecayVelocity(p.velocity)

FrameDeltasMs == {16}

Integrate(dtMs) ==
    /\ physicsRef' = [isInteracting |-> physicsRef.isInteracting,
                      delta |-> ConsumeDelta(physicsRef),
                      velocity |-> IntegrateVelocity(physicsRef),
                      zoomDelta |-> ConsumeZoom(physicsRef.zoomDelta)]
    /\ fresh' = [rot |-> fresh.rot /\ ~physicsRef.isInteracting,
                 zoom |-> fresh.zoom /\ ~ZoomApplies(physicsRef.zoomDelta)]
    /\ written' = NoWrites(written.on)
    /\ lastStep' = [act |-> "tick",
                    interacting |-> physicsRef.isInteracting,
                    rotStep |-> RotationStep(physicsRef, treeState.rotationSpeed, dtMs),
                    deltaApplied |-> IF physicsRef.isInteracting THEN physicsRef.delta ELSE 0,
                    velocityApplied |-> IF physicsRef.isInteracting THEN 0
                                        ELSE physicsRef.velocity,
                    camMove |-> CameraMove(physicsRef.zoomDelta),
                    writes |-> written]

Tick(limit) ==
    /\ ticks < limit
    /\ ticks' = ticks + 1
    /\ \E dtMs \in FrameDeltasMs : Integrate(dtMs)
    /\ UNCHANGED <<gestureVars, frameVars, treeState, pointerDown, lifecycleLog, handSeen,
                   lastModeEvent, dragSeen, frames, pointerEvents, toggles>>

RenderTick == Tick(MaxTicks)

\* ------------------------------------------------------------------------
\* Specification: the whole pipeline
\* ------------------------------------------------------------------------
InitGesture ==
    /\ isActive = TRUE
    /\ setupPc = "awaitVision"
    /\ recognizer = "none"
    /\ gestureRecognizerRef = FALSE
    /\ videoRef = TRUE
    /\ srcObject = FALSE
    /\ stream = "none"
    /\ listener = FALSE
    /\ loadedFired = FALSE
    /\ rafCount = 0
    /\ requestRef = "zero"
    /\ isLoaded = FALSE
    /\ error = "null"
    /\ wasTracking = FALSE
    /\ lastWristX = None
    /\ lastHandSize = None
    /\ smoothedRotDelta = 0
    /\ smoothedZoomDelta = 0

InitPhysics == [isInteracting |-> FALSE, delta |-> 0, velocity |-> 0, zoomDelta |-> 0]

InitApp ==
    /\ treeState = [mode |-> "FORMED", rotationSpeed |-> InitialRotationSpeed, obj |-> 0]
    /\ physicsRef = InitPhysics
    /\ pointerDown = FALSE

InitLog ==
    /\ lastStep = Step("init")
    /\ lifecycleLog = <<>>
    /\ handSeen = FALSE
    /\ lastModeEvent = "none"
    /\ fresh = [rot |-> FALSE, zoom |-> FALSE]
    /\ dragSeen = [last |-> 0, nonZero |-> 0]
    /\ frames = 0
    /\ ticks = 0
    /\ pointerEvents = 0
    /\ toggles = 0

InitObs == InitLog /\ written = NoWrites(FALSE)

Init == InitGesture /\ InitApp /\ InitObs

\* the gesture path end to end: the pipeline comes up, frames feed the shared
\* physics record, render ticks consume it
Next ==
    \/ VisionResolved
    \/ RecognizerCreated
    \/ CameraGranted
    \/ LoadedData(FrameResults)
    \/ AnimationFrame(FrameResults)
    \/ RenderTick

Spec == Init /\ [][Next]_vars

\* ------------------------------------------------------------------------
\* Specification: set-up, failure and teardown interleaved with frames
\* ------------------------------------------------------------------------
LifecycleResults == {Throw, NoHand, Hand(MkHand(40000, 15000, OpenHandPoses)),
                     Hand(MkHand(42000, 18000, FistPoses))}

NextLifecycle ==
    \/ VisionResolved
    \/ SetupFailed
    \/ RecognizerCreated
    \/ CameraGranted
    \/ CameraDenied
    \/ Teardown
    \/ DetachRefs
    \/ LoadedData(LifecycleResults)
    \/ AnimationFrame(LifecycleResults)

SpecLifecycle == Init /\ [][NextLifecycle]_vars

\* ------------------------------------------------------------------------
\* Specification: both producers, the mode button and the integrator interleaved
\* ------------------------------------------------------------------------
NextShared ==
    \/ VisionResolved
    \/ RecognizerCreated
    \/ CameraGranted
    \/ LoadedData(LifecycleResults)
    \/ AnimationFrame(LifecycleResults)
    \/ PointerPress
    \/ PointerMove
    \/ PointerRelease
    \/ ToggleMode
    \/ RenderTick

SpecShared == Init /\ [][NextShared]_vars

\* ------------------------------------------------------------------------
\* Specification: the posture classifier over every finger pose
\* ------------------------------------------------------------------------
PostureHands ==
    {MkHand(40000, 15000, <<p1, p2, p3, p4>>) :
        p1 \in Poses, p2 \in {"ext", "mid", "curl"}, p3 \in {"ext", "eq", "curl"},
        p4 \in {"ext", "curl"}}

PostureResults == {NoHand} \cup {Hand(lm) : lm \in PostureHands}

NextPosture ==
    \/ VisionResolved
    \/ RecognizerCreated
    \/ CameraGranted
    \/ LoadedData(PostureResults)
    \/ AnimationFrame(PostureResults)

SpecPosture == Init /\ [][NextPosture]_vars

\* ------------------------------------------------------------------------
\* Specification: the integrator alone, released with a velocity left by a drag
\* ------------------------------------------------------------------------
MaxDecayTicks == 150
\* ticks within which a velocity of magnitude up to 0.16 has reached zero:
\* the least n with 0.16 * 0.95^n < 0.0001
DecayTicksBound == 144

\* velocities a released drag of dx pixels leaves behind
ReleasedDxs == {-32, -4, -1, 1, 4, 32}

InitDecay ==
    /\ InitGesture
    /\ InitObs
    /\ treeState = [mode |-> "FORMED", rotationSpeed |-> InitialRotationSpeed, obj |-> 0]
    /\ pointerDown = FALSE
    /\ \E dx \in ReleasedDxs :
          physicsRef = dragHandler(dragHandler(InitPhysics, dx, TRUE), 0, FALSE)

DecayTick == Tick(MaxDecayTicks)

NextDecay == DecayTick

SpecDecay == InitDecay /\ [][NextDecay]_vars

\* ========================================================================
\* Properties
\* ========================================================================
IsFrame == lastStep.act = "frame"
IsHandFrame == IsFrame /\ lastStep.kind = "hand"
IsTick == lastStep.act = "tick"

\* the non-thumb fingers of a hand that satisfy dist(wrist, tip) > 1.1 * dist(wrist, joint)
FingersBeyondJoint(lm) ==
    {f \in {<<8, 6>>, <<12, 10>>, <<16, 14>>, <<20, 18>>} :
        10 * getDist(lm[0], lm[f[1]]) > 11 * getDist(lm[0], lm[f[2]])}

\* the non-thumb fingers of a hand that satisfy dist(wrist, tip) < dist(wrist, joint)
FingersInsideJoint(lm) ==
    {f \in {<<8, 6>>, <<12, 10>>, <<16, 14>>, <<20, 18>>} :
        getDist(lm[0], lm[f[1]]) < getDist(lm[0], lm[f[2]])}

\* C1: a hand frame is classified OPEN (isHandExtended) and requests CHAOS exactly
\* when at least 2 of the 4 non-thumb fingers have dist(wrist,tip) > 1.1 * dist(wrist,joint)
C1_OpenIffTwoFingersExtended ==
    IsHandFrame =>
        LET enough == Cardinality(FingersBeyondJoint(lastStep.landmarks)) >= 2
        IN  /\ isHandExtended(lastStep.landmarks) <=> enough
            /\ (lastStep.mode = "CHAOS") <=> enough

\* a frame whose hand has exactly 2 extended fingers, one other finger sitting
\* exactly on the 1.1 boundary, requested CHAOS
C1_Witness ==
    /\ IsHandFrame
    /\ lastStep.mode = "CHAOS"
    /\ Cardinality(FingersBeyondJoint(lastStep.landmarks)) = 2
    /\ 10 * getDist(lastStep.landmarks[0], lastStep.landmarks[8])
          = 11 * getDist(lastStep.landmarks[0], lastStep.landmarks[6])

\* C2: a frame requests FORMED exactly when it shows a hand with at least 3 of the 4
\* non-thumb fingers at dist(wrist,tip) < dist(wrist,joint) that does not pass the OPEN test
C2_FormedIffThreeFingersCurled ==
    IsFrame =>
        ((lastStep.mode = "FORMED") <=>
            /\ lastStep.kind = "hand"
            /\ Cardinality(FingersInsideJoint(lastStep.landmarks)) >= 3
            /\ ~(Cardinality(FingersBeyondJoint(lastStep.landmarks)) >= 2))

\* a frame whose hand has exactly 3 curled fingers, the fourth exactly as far as its
\* joint, requested FORMED
C2_Witness ==
    /\ IsHandFrame
    /\ lastStep.mode = "FORMED"
    /\ Cardinality(FingersInsideJoint(lastStep.landmarks)) = 3
    /\ getDist(lastStep.landmarks[0], lastStep.landmarks[8])
          = getDist(lastStep.landmarks[0], lastStep.landmarks[6])

FrameTaken == frames' = frames + 1
TickTaken == ticks' = ticks + 1

Alternating(log) ==
    \A i \in 1..Len(log) : log[i] = IF i % 2 = 1 THEN "start" ELSE "end"

\* C3: interaction-start fires exactly on a hand frame that follows no tracking,
\* interaction-end exactly on the first hand-absent frame after tracking, and the
\* callbacks invoked so far alternate start, end, start, ...
C3_StartEndAlternate ==
    [][FrameTaken =>
          /\ lastStep'.start <=> (lastStep'.kind = "hand" /\ ~handSeen)
          /\ lastStep'.end <=> (lastStep'.kind = "nohand" /\ handSeen)
          /\ Alternating(lifecycleLog')]_vars

\* hand, hand-absent, hand again: start, end, start
C3_Witness == IsFrame /\ lastStep.start /\ lifecycleLog = <<"start", "end", "start">>

\* C4: right after the frame on which engagement starts both smoothed values are
\* within the emission epsilon and neither rotation-move nor zoom-move was invoked
C4_StartFrameIsSilent ==
    (IsFrame /\ lastStep.start) =>
        /\ Abs(smoothedRotDelta) <= Epsilon
        /\ Abs(smoothedZoomDelta) <= Epsilon
        /\ ~lastStep.rotCalled
        /\ ~lastStep.zoomCalled

\* engagement starts again after an earlier session has ended
C4_Witness == IsFrame /\ lastStep.start /\ Len(lifecycleLog) = 3

\* C5: with isInteracting false and no producer writing, the velocity shrinks on every
\* tick, is never left at a non-zero magnitude below the epsilon (it snaps to 0), is
\* exactly 0 after at most DecayTicksBound ticks, and stays 0
C5_VelocityDecaysToZero ==
    /\ [](ticks >= DecayTicksBound => physicsRef.velocity = 0)
    /\ [][/\ physicsRef.velocity # 0 => Abs(physicsRef'.velocity) < Abs(physicsRef.velocity)
          /\ physicsRef.velocity = 0 => physicsRef'.velocity = 0
          /\ physicsRef'.velocity = 0 \/ Abs(physicsRef'.velocity) >= VelocityEpsilon]_vars

\* the tick that snaps a long-decaying velocity to zero
C5_Witness ==
    /\ IsTick
    /\ ticks > 100
    /\ lastStep.velocityApplied # 0
    /\ physicsRef.velocity = 0

\* C6: a gesture mode request leaves the mode at the requested value; a request for the
\* current mode, and so a request repeating the previous mode event, keeps the same
\* tree state object
C6_ModeRequestIdempotent ==
    [][(FrameTaken /\ lastStep'.mode # "none") =>
          /\ treeState'.mode = lastStep'.mode
          /\ treeState.mode = lastStep'.mode => treeState' = treeState
          /\ lastModeEvent = lastStep'.mode => treeState' = treeState]_vars

\* FORMED requested again after the mode had gone to CHAOS and back to FORMED
C6_Witness ==
    /\ IsFrame
    /\ lastStep.repeat
    /\ lastStep.mode = "FORMED"
    /\ treeState.obj = 2

\* C7 as stated: right after interaction-end the rotation velocity and the zoom delta
\* are both zero
C7_EndZeroesVelocityAndZoom ==
    (IsFrame /\ lastStep.end) =>
        /\ physicsRef.velocity = 0
        /\ physicsRef.zoomDelta = 0

\* C7 amended: the interaction-end handling zeroes the rotation delta and the zoom
\* delta and lowers isInteracting; it leaves the rotation velocity as it was
C7_EndZeroesDeltas ==
    [][(FrameTaken /\ lastStep'.end) =>
          /\ physicsRef'.delta = 0
          /\ physicsRef'.zoomDelta = 0
          /\ ~physicsRef'.isInteracting
          /\ physicsRef'.velocity = physicsRef.velocity]_vars

\* the hand was lost while the velocity written by rotation-move was still non-zero
C7_Witness == IsFrame /\ lastStep.end /\ physicsRef.velocity # 0

\* C8: a render tick applies a non-zero rotation delta or zoom delta only if a producer
\* wrote the field since it was last applied, and leaves the field zero
C8_DeltasConsumedOnce ==
    [][TickTaken =>
          /\ lastStep'.deltaApplied # 0 =>
                fresh.rot /\ physicsRef'.delta = 0 /\ ~fresh'.rot
          /\ lastStep'.camMove # 0 =>
                fresh.zoom /\ physicsRef'.zoomDelta = 0 /\ ~fresh'.zoom]_vars

\* a second tick, after an earlier one, applied both a rotation delta and a zoom delta
C8_Witness ==
    /\ IsTick
    /\ ticks = 2
    /\ lastStep.deltaApplied # 0
    /\ lastStep.camMove # 0

\* C9: once the clean-up has run no frame invokes a callback: the callback log, the
\* physics record and the tree state (written here by the gesture callbacks only) stay
\* as they are
C9_NoCallbackAfterTeardown ==
    [][~isActive =>
          /\ lifecycleLog' = lifecycleLog
          /\ physicsRef' = physicsRef
          /\ treeState' = treeState
          /\ FrameTaken =>
                /\ ~lastStep'.start /\ ~lastStep'.end
                /\ ~lastStep'.rotCalled /\ ~lastStep'.zoomCalled
                /\ lastStep'.mode = "none"]_vars

\* torn down while a hand was tracked and the next frame was scheduled
C9_Witness ==
    /\ ~isActive
    /\ wasTracking
    /\ requestRef = "stale"
    /\ rafCount = 0

\* C10 as stated: once the clean-up has run and the set-up has settled, no camera
\* stream is left live and no frame request is pending
C10_TeardownReleasesCamera ==
    (~isActive /\ setupPc \in {"returned", "done", "failed"}) =>
        /\ stream # "live"
        /\ rafCount = 0

\* C11: a frame whose recognition call throws leaves the tracking flag, both baselines
\* and both smoothed values as they were, invokes no callback (callback log, physics
\* record and tree state untouched) and schedules the next frame
C11_ThrownFrameIsSkipped ==
    [][(FrameTaken /\ lastStep'.kind = "throw") =>
          /\ wasTracking' = wasTracking
          /\ lastWristX' = lastWristX
          /\ lastHandSize' = lastHandSize
          /\ smoothedRotDelta' = smoothedRotDelta
          /\ smoothedZoomDelta' = smoothedZoomDelta
          /\ lifecycleLog' = lifecycleLog
          /\ physicsRef' = physicsRef
          /\ treeState' = treeState
          /\ ~lastStep'.start /\ ~lastStep'.end
          /\ ~lastStep'.rotCalled /\ ~lastStep'.zoomCalled
          /\ lastStep'.mode = "none"
          /\ rafCount' = 1
          /\ requestRef' = "pending"]_vars

\* the recognizer threw while a hand was tracked and the rotation filter was charged
C11_Witness ==
    /\ IsFrame
    /\ lastStep.kind = "throw"
    /\ wasTracking
    /\ lastWristX # None
    /\ smoothedRotDelta # 0
    /\ rafCount = 1

\* ------------------------------------------------------------------------
\* Specification: set-up that may fail, with the pointer path and the integrator
\* ------------------------------------------------------------------------
NextFallback ==
    \/ VisionResolved
    \/ SetupFailed
    \/ RecognizerCreated
    \/ CameraGranted
    \/ CameraDenied
    \/ LoadedData(LifecycleResults)
    \/ AnimationFrame(LifecycleResults)
    \/ PointerPress
    \/ PointerMove
    \/ PointerRelease
    \/ RenderTick

SpecFallback == Init /\ [][NextFallback]_vars

PointerTaken == pointerEvents' = pointerEvents + 1

\* C12: a failed set-up (model load or camera) leaves an error message; from then on no
\* frame is processed and no gesture callback runs; every pointer event, before or after
\* the failure, sets isInteracting to its pressed flag, writes dx * 0.005 to delta and
\* velocity while pressed and zeroes delta on release
C12_InitFailureLeavesPointerPath ==
    [][/\ setupPc' = "failed" => error' # "null"
       /\ error # "null" =>
             /\ ~FrameTaken
             /\ lifecycleLog' = lifecycleLog
             /\ treeState' = treeState
             /\ error' = error
       /\ PointerTaken =>
             /\ physicsRef'.isInteracting = lastStep'.down
             /\ physicsRef'.delta = IF lastStep'.down THEN lastStep'.dx * MouseSensitivity ELSE 0
             /\ physicsRef'.velocity = IF lastStep'.down THEN lastStep'.dx * MouseSensitivity
                                       ELSE physicsRef.velocity
             /\ physicsRef'.zoomDelta = physicsRef.zoomDelta]_vars

\* a pressed drag event turns the scene after the camera was denied
C12_Witness ==
    /\ error = "Camera access denied"
    /\ lastStep.act = "pointer"
    /\ lastStep.down
    /\ physicsRef.isInteracting
    /\ physicsRef.delta # 0
    /\ lifecycleLog = <<>>

\* C13: a hand frame that passes neither the OPEN test (fewer than 2 fingers beyond
\* 1.1 x the joint distance) nor the CLOSED test (fewer than 3 fingers inside it) requests
\* no mode and leaves the tree state as it was; its rotation and zoom channels are
\* processed as on any hand frame: filters updated from the frame-to-frame deltas,
\* callbacks invoked above the epsilon, baselines moved to this frame
C13_NeutralKeepsModeAndMoves ==
    [][(/\ FrameTaken
        /\ lastStep'.kind = "hand"
        /\ Cardinality(FingersBeyondJoint(lastStep'.landmarks)) < 2
        /\ Cardinality(FingersInsideJoint(lastStep'.landmarks)) < 3) =>
          LET lm == lastStep'.landmarks
              size == getDist(lm[0], lm[9])
              rawX == IF wasTracking THEN lm[0].x - lastWristX ELSE 0
              rawSize == IF wasTracking THEN size - lastHandSize ELSE 0
              sRot == IF wasTracking THEN smoothedRotDelta ELSE 0
              sZoom == IF wasTracking THEN smoothedZoomDelta ELSE 0
          IN  /\ lastStep'.mode = "none"
              /\ treeState' = treeState
              /\ lastModeEvent' = lastModeEvent
              /\ smoothedRotDelta' = SmoothRot(sRot, Deadzone(rawX, DeadzoneRot))
              /\ smoothedZoomDelta' = SmoothZoom(sZoom, Deadzone(rawSize, DeadzoneZoom))
              /\ lastStep'.rotCalled <=> Abs(smoothedRotDelta') > Epsilon
              /\ lastStep'.zoomCalled <=> Abs(smoothedZoomDelta') > Epsilon
              /\ lastWristX' = lm[0].x
              /\ lastHandSize' = size]_vars

\* a neutral hand moved and grew: both move callbacks ran and the mode a previous open
\* hand had set stayed CHAOS
C13_Witness ==
    /\ IsHandFrame
    /\ Cardinality(FingersBeyondJoint(lastStep.landmarks)) < 2
    /\ Cardinality(FingersInsideJoint(lastStep.landmarks)) < 3
    /\ lastStep.rotCalled
    /\ lastStep.zoomCalled
    /\ lastStep.mode = "none"
    /\ treeState.mode = "CHAOS"

\* ------------------------------------------------------------------------
\* Specification: the pointer path alone with the integrator
\* ------------------------------------------------------------------------
MaxDragEvents == 6

DragPress == ~pointerDown /\ Drag(MaxDragEvents, 0, TRUE)

DragMove == pointerDown /\ \E dx \in DragDxs : Drag(MaxDragEvents, dx, TRUE)

DragRelease == pointerDown /\ Drag(MaxDragEvents, 0, FALSE)

NextPointer ==
    \/ DragPress
    \/ DragMove
    \/ DragRelease
    \/ RenderTick

SpecPointer == Init /\ [][NextPointer]_vars

IsRelease == lastStep.act = "pointer" /\ ~lastStep.down

\* C14 as stated: right after a pointer release the rotation delta is zero and the
\* velocity equals the last non-zero rotation delta written while the pointer was pressed
C14_ReleaseSeedsLastNonZeroDelta ==
    IsRelease =>
        /\ physicsRef.delta = 0
        /\ physicsRef.velocity = dragSeen.nonZero

\* C14 amended: a pointer release zeroes the rotation delta, lowers isInteracting and
\* leaves the velocity alone; the velocity it leaves is the rotation delta of the most
\* recent pressed event, zero included, and the first tick after the release applies it
C14_ReleaseKeepsLastPressedDelta ==
    [][/\ (PointerTaken /\ ~lastStep'.down) =>
             /\ physicsRef'.delta = 0
             /\ ~physicsRef'.isInteracting
             /\ physicsRef'.velocity = physicsRef.velocity
             /\ physicsRef'.velocity = dragSeen.last
       /\ (TickTaken /\ IsRelease) => lastStep'.velocityApplied = dragSeen.last]_vars

\* released after a horizontal drag whose final pressed event did not move horizontally
C14_Witness ==
    /\ IsRelease
    /\ dragSeen.nonZero # 0
    /\ dragSeen.last = 0
    /\ physicsRef.velocity = 0
    /\ physicsRef.delta = 0

\* C15 as stated: isInteracting is true exactly when a hand is tracked or the pointer
\* is pressed
C15_EngagedMirrorsControllers ==
    physicsRef.isInteracting <=> (wasTracking \/ pointerDown)

\* ------------------------------------------------------------------------
\* Specification: the filters, with wrist and hand-size steps below, at and above
\* the deadzone thresholds
\* ------------------------------------------------------------------------
FilterXs == {40000, 40300, 40800}
FilterSizes == {15000, 15600, 16600}

FilterResults ==
    {NoHand} \cup
    {Hand(MkHand(wx, size, NeutralPoses)) : wx \in FilterXs, size \in FilterSizes}

NextFilter ==
    \/ VisionResolved
    \/ RecognizerCreated
    \/ CameraGranted
    \/ LoadedData(FilterResults)
    \/ AnimationFrame(FilterResults)

SpecFilter == Init /\ [][NextFilter]_vars

\* a hand frame of a session already engaged
TrackedHandFrame == FrameTaken /\ lastStep'.kind = "hand" /\ wasTracking

\* frame-to-frame raw inputs of the hand frame being taken
RawX == lastStep'.landmarks[0].x - lastWristX
RawSize == getDist(lastStep'.landmarks[0], lastStep'.landmarks[9]) - lastHandSize

\* the effective input as the claim states it: raw unless |raw| < threshold
EffectiveAsStated(raw, threshold) == IF Abs(raw) < threshold THEN 0 ELSE raw

\* the effective input with the boundary on the zero side: raw only if |raw| > threshold
EffectiveExclusive(raw, threshold) == IF Abs(raw) <= threshold THEN 0 ELSE raw

\* C16 as stated: each channel filters the raw input that is 0 when |raw| < threshold
\* and raw otherwise, |raw| equal to the threshold included
C16_DeadzoneBelowThreshold ==
    [][TrackedHandFrame =>
          /\ smoothedRotDelta' =
                SmoothRot(smoothedRotDelta, EffectiveAsStated(RawX, DeadzoneRot))
          /\ smoothedZoomDelta' =
                SmoothZoom(smoothedZoomDelta, EffectiveAsStated(RawSize, DeadzoneZoom))]_vars

\* C16 amended: each channel filters the raw input that is 0 when |raw| <= threshold
\* (0.005 for rotation, 0.01 for zoom) and raw when |raw| > threshold
C16_DeadzoneUpToThreshold ==
    [][TrackedHandFrame =>
          /\ smoothedRotDelta' =
                SmoothRot(smoothedRotDelta, EffectiveExclusive(RawX, DeadzoneRot))
          /\ smoothedZoomDelta' =
                SmoothZoom(smoothedZoomDelta, EffectiveExclusive(RawSize, DeadzoneZoom))]_vars

\* a frame whose wrist step and hand-size step both sit exactly on their thresholds
\* left both filters at rest
C16_Witness ==
    /\ IsHandFrame
    /\ ~lastStep.start
    /\ Abs(lastStep.rawX) = DeadzoneRot
    /\ Abs(lastStep.rawSize) = DeadzoneZoom
    /\ smoothedRotDelta = 0
    /\ smoothedZoomDelta = 0

\* C17 as stated: on every hand frame of an engaged session each channel's smoothed
\* value becomes smoothed * alpha + effective * (1 - alpha) with the channel's small
\* attack alpha when the effective input is non-zero and its large decay alpha when it is
\* zero (rotation 0.1 / 0.9, zoom 0.05 / 0.95), the zoom decay alpha being the larger
C17_AsymmetricSmoothing ==
    [][TrackedHandFrame =>
          LET effRot == EffectiveExclusive(RawX, DeadzoneRot)
              effZoom == EffectiveExclusive(RawSize, DeadzoneZoom)
          IN  /\ smoothedRotDelta' =
                    Blend(smoothedRotDelta, effRot,
                          IF effRot # 0 THEN AlphaAttackRot ELSE AlphaDecayRot)
              /\ smoothedZoomDelta' =
                    Blend(smoothedZoomDelta, effZoom,
                          IF effZoom # 0 THEN AlphaAttackZoom ELSE AlphaDecayZoom)
              /\ AlphaAttackRot < AlphaDecayRot
              /\ AlphaAttackZoom < AlphaDecayZoom
              /\ AlphaDecayZoom > AlphaDecayRot]_vars

\* C18: rotation-move and zoom-move run only on hand frames; on a hand frame each runs
\* exactly when its channel's smoothed value after the update exceeds 0.0001 in
\* magnitude, with that value as its argument, and the handler stores the value it was
\* given (delta = velocity = -8 x, zoomDelta = -80 x)
C18_MoveCallbacksAboveEpsilon ==
    IsFrame =>
        /\ lastStep.rotCalled <=> (lastStep.kind = "hand" /\ Abs(smoothedRotDelta) > Epsilon)
        /\ lastStep.zoomCalled <=> (lastStep.kind = "hand" /\ Abs(smoothedZoomDelta) > Epsilon)
        /\ lastStep.rotCalled =>
              /\ lastStep.rot = smoothedRotDelta
              /\ physicsRef.delta = -GestureRotSensitivity * smoothedRotDelta
              /\ physicsRef.velocity = -GestureRotSensitivity * smoothedRotDelta
        /\ lastStep.zoomCalled =>
              /\ lastStep.zoom = smoothedZoomDelta
              /\ physicsRef.zoomDelta = -GestureZoomSensitivity * smoothedZoomDelta

\* a hand frame on which the rotation filter was above the epsilon and the zoom filter
\* at rest: rotation-move ran and zoom-move did not
C18_Witness ==
    /\ IsHandFrame
    /\ lastStep.rotCalled
    /\ ~lastStep.zoomCalled
    /\ Abs(smoothedRotDelta) > Epsilon
    /\ smoothedZoomDelta = 0

\* C19: zoom-move stores its argument times 80 with the sign inverted; a render tick that
\* directly follows the frame moves the camera along its forward vector by the negated
\* zoomDelta, so a growing hand (positive smoothed delta) moves the camera toward the
\* target and a shrinking hand moves it away, and the tick consumes the zoomDelta
C19_GrowingHandDolliesIn ==
    [][/\ (FrameTaken /\ lastStep'.zoomCalled) =>
             /\ physicsRef'.zoomDelta = -(lastStep'.zoom * GestureZoomSensitivity)
             /\ lastStep'.zoom > 0 <=> physicsRef'.zoomDelta < 0
       /\ (TickTaken /\ IsFrame /\ lastStep.zoomCalled) =>
             /\ lastStep'.camMove = lastStep.zoom * GestureZoomSensitivity
             /\ lastStep.zoom > 0 <=> lastStep'.camMove > 0
             /\ lastStep.zoom < 0 <=> lastStep'.camMove < 0
             /\ physicsRef'.zoomDelta = 0]_vars

\* the tick after a frame on which the hand had grown moved the camera toward the target
C19_Witness ==
    /\ IsTick
    /\ lastStep.camMove > 0
    /\ smoothedZoomDelta > 0
    /\ physicsRef.zoomDelta = 0

\* the ambient rotation of one tick: rotationSpeed * 0.2 * dt, dt in milliseconds
AmbientTerm(dtMs) == TruncDiv(TruncDiv(treeState.rotationSpeed * 20, 100) * dtMs, 1000)

\* C20: a tick with isInteracting true turns the tree by exactly the pending delta (no
\* velocity, no ambient term) and leaves the velocity as it is; a tick with isInteracting
\* false turns it by the velocity plus the ambient term and only afterwards multiplies the
\* velocity by 0.95 (snapped to 0 below 0.0001), leaving the delta as it is
C20_TickDirectOrInertia ==
    [][TickTaken =>
          IF physicsRef.isInteracting
          THEN /\ lastStep'.rotStep = physicsRef.delta
               /\ lastStep'.velocityApplied = 0
               /\ physicsRef'.velocity = physicsRef.velocity
               /\ physicsRef'.delta = 0
          ELSE /\ \E dtMs \in FrameDeltasMs :
                     /\ AmbientTerm(dtMs) # 0
                     /\ lastStep'.rotStep = physicsRef.velocity + AmbientTerm(dtMs)
               /\ lastStep'.velocityApplied = physicsRef.velocity
               /\ LET v == TruncDiv(physicsRef.velocity * 95, 100)
                  IN  physicsRef'.velocity = IF Abs(v) < 10 THEN 0 ELSE v
               /\ physicsRef'.delta = physicsRef.delta]_vars

\* a tick during a drag applied the delta and kept the equal velocity for the release
C20_Witness ==
    /\ IsTick
    /\ lastStep.interacting
    /\ lastStep.rotStep # 0
    /\ physicsRef.velocity = lastStep.rotStep
    /\ physicsRef.delta = 0

\* ------------------------------------------------------------------------
\* Specification: both producers and the integrator, with the producers' writes
\* between ticks on record
\* ------------------------------------------------------------------------
WriteResults == {NoHand, Hand(MkHand(40000, 15000, OpenHandPoses)),
                 Hand(MkHand(42000, 18000, OpenHandPoses))}

InitWrites == InitGesture /\ InitApp /\ InitLog /\ written = NoWrites(TRUE)

NextWrites ==
    \/ VisionResolved
    \/ RecognizerCreated
    \/ CameraGranted
    \/ LoadedData(WriteResults)
    \/ AnimationFrame(WriteResults)
    \/ PointerPress
    \/ PointerMove
    \/ PointerRelease
    \/ RenderTick

SpecWrites == InitWrites /\ [][NextWrites]_vars

Latest(writes) == writes[Len(writes)]

\* the value a producer's write leaves in the field: rotation-move stores -8 x its
\* argument, zoom-move -80 x, a pressed drag event 0.005 x dx, release and
\* interaction-end store 0
ValueOf(w) ==
    CASE w.by = "rotationMove" -> -8 * w.arg
      [] w.by = "zoomMove" -> -80 * w.arg
      [] w.by = "drag" -> 500 * w.arg
      [] OTHER -> 0

\* C21: of the producer writes made to the rotation delta (to the zoom delta) since the
\* previous tick, a tick applies the value of the latest one only: with isInteracting
\* true the tree turns by exactly that value, and the camera moves by exactly the negated
\* latest zoom value when it exceeds the epsilon; earlier writes leave no trace
C21_LatestWriteWins ==
    IsTick =>
        /\ lastStep.writes.rot # <<>> =>
              lastStep.deltaApplied =
                 IF lastStep.interacting THEN ValueOf(Latest(lastStep.writes.rot)) ELSE 0
        /\ lastStep.writes.zoom # <<>> =>
              LET z == ValueOf(Latest(lastStep.writes.zoom))
              IN  lastStep.camMove = IF Abs(z) > 10 THEN -z ELSE 0

\* two gesture frames wrote different non-zero rotation deltas before one tick, which
\* applied the second
C21_Witness ==
    /\ IsTick
    /\ Len(lastStep.writes.rot) >= 2
    /\ lastStep.writes.rot[1].by = "rotationMove"
    /\ Latest(lastStep.writes.rot).by = "rotationMove"
    /\ lastStep.writes.rot[1].arg # Latest(lastStep.writes.rot).arg
    /\ lastStep.deltaApplied = ValueOf(Latest(lastStep.writes.rot))
    /\ lastStep.deltaApplied # 0

\* C22: on every hand frame no finger passes both the extension and the curl test, the
\* hand never passes both isHandExtended and isHandClosed, and so every hand that passes
\* isHandClosed requests FORMED
C22_OpenAndClosedExclusive ==
    IsHandFrame =>
        LET lm == lastStep.landmarks
        IN  /\ FingersBeyondJoint(lm) \cap FingersInsideJoint(lm) = {}
            /\ ~(isHandExtended(lm) /\ isHandClosed(lm))
            /\ isHandClosed(lm) => lastStep.mode = "FORMED"
            /\ isHandExtended(lm) => lastStep.mode = "CHAOS"

\* the nearest a hand comes to both: one finger extended, the other three curled; it is
\* closed, not open, and requested FORMED
C22_Witness ==
    /\ IsHandFrame
    /\ Cardinality(FingersBeyondJoint(lastStep.landmarks)) = 1
    /\ Cardinality(FingersInsideJoint(lastStep.landmarks)) = 3
    /\ isHandClosed(lastStep.landmarks)
    /\ lastStep.mode = "FORMED"

\* C23: the tracking flag is true exactly when the wrist-x baseline is present and
\* exactly when the hand-size baseline is present; a hand frame leaves both baselines at
\* its own wrist x and hand size, and its raw deltas are its values minus those of the
\* previous hand frame (0 on the frame that starts engagement); a hand-absent frame
\* leaves the flag lowered, both baselines absent and both smoothed values 0
C23_EngagementStateConsistent ==
    /\ [](/\ wasTracking <=> lastWristX # None
          /\ wasTracking <=> lastHandSize # None)
    /\ [][FrameTaken =>
            /\ lastStep'.kind = "hand" =>
                  LET x == lastStep'.landmarks[0].x
                      size == getDist(lastStep'.landmarks[0], lastStep'.landmarks[9])
                  IN  /\ wasTracking'
                      /\ lastWristX' = x
                      /\ lastHandSize' = size
                      /\ lastStep'.rawX = IF wasTracking THEN x - lastWristX ELSE 0
                      /\ lastStep'.rawSize = IF wasTracking THEN size - lastHandSize ELSE 0
            /\ lastStep'.kind = "nohand" =>
                  /\ ~wasTracking'
                  /\ lastWristX' = None
                  /\ lastHandSize' = None
                  /\ smoothedRotDelta' = 0
                  /\ smoothedZoomDelta' = 0]_vars

\* in a second session the hand moved and grew from one frame to the next
C23_Witness ==
    /\ IsHandFrame
    /\ ~lastStep.start
    /\ lifecycleLog = <<"start", "end", "start">>
    /\ lastStep.rawX # 0
    /\ lastStep.rawSize # 0
    /\ lastWristX = lastStep.landmarks[0].x
    /\ lastHandSize # None

\* ------------------------------------------------------------------------
\* Specification: a hand that moves for a few frames and then stays tracked and still
\* ------------------------------------------------------------------------
MoveFrames == 2
MaxStillFrames == 60
\* still frames after which a smoothed wrist delta of up to 0.018 is within the epsilon:
\* the least n with 0.018 * 0.9^n <= 0.0001
QuietAfter == 50

StillXs == {40000, 40500, 42000}
StillSizes == {15000, 16000, 18000}

StillHands ==
    {Hand(MkHand(wx, size, NeutralPoses)) : wx \in StillXs, size \in StillSizes}

\* a hand whose wrist and size are within the deadzones of the baselines
HoldsStill(res) ==
    /\ Abs(res.landmarks[0].x - lastWristX) <= DeadzoneRot
    /\ Abs(getDist(res.landmarks[0], res.landmarks[9]) - lastHandSize) <= DeadzoneZoom

StillFrame ==
    RafCallback(MaxStillFrames,
                IF frames < MoveFrames THEN StillHands
                ELSE {res \in StillHands : HoldsStill(res)})

NextStill ==
    \/ VisionResolved
    \/ RecognizerCreated
    \/ CameraGranted
    \/ LoadedData(StillHands)
    \/ StillFrame

SpecStill == Init /\ [][NextStill]_vars

\* C24: on a frame of a tracked hand whose raw deltas are inside the deadzones each
\* smoothed value shrinks by the factor 0.9 and a callback that was silent stays silent;
\* once the hand has been still for QuietAfter frames neither rotation-move nor zoom-move
\* is invoked
C24_StillHandFallsSilent ==
    /\ [][(TrackedHandFrame /\ Abs(RawX) <= DeadzoneRot /\ Abs(RawSize) <= DeadzoneZoom) =>
             /\ smoothedRotDelta' = TruncDiv(smoothedRotDelta * 9, 10)
             /\ smoothedZoomDelta' = TruncDiv(smoothedZoomDelta * 9, 10)
             /\ Abs(smoothedRotDelta) <= Epsilon => ~lastStep'.rotCalled
             /\ Abs(smoothedZoomDelta) <= Epsilon => ~lastStep'.zoomCalled]_vars
    /\ [](frames >= MoveFrames + QuietAfter =>
             (IsHandFrame /\ ~lastStep.rotCalled /\ ~lastStep.zoomCalled))

\* a still frame on which rotation-move has just stopped: the smoothed wrist delta is
\* within the epsilon and not yet zero
C24_Witness ==
    /\ IsHandFrame
    /\ frames > MoveFrames
    /\ Abs(lastStep.rawX) <= DeadzoneRot
    /\ ~lastStep.rotCalled
    /\ ~lastStep.zoomCalled
    /\ smoothedRotDelta # 0
    /\ Abs(smoothedRotDelta) <= Epsilon

\* C25: at most one predictWebcam callback is scheduled at any time, and it is the one
\* requestRef holds; the 'loadeddata' invocation runs only while none is scheduled, an
\* animation-frame invocation takes the place of the one that was scheduled, and each
\* invocation leaves at most one successor scheduled
C25_SingleFrameChain ==
    /\ [](/\ rafCount \in {0, 1}
          /\ rafCount = 1 <=> requestRef = "pending")
    /\ [][FrameTaken =>
            /\ loadedFired' # loadedFired => rafCount = 0
            /\ loadedFired' = loadedFired => rafCount = 1
            /\ rafCount' <= 1
            /\ lastStep'.kind \in {"hand", "nohand", "throw"} => rafCount' = 1
            /\ lastStep'.kind = "early" => rafCount' = 0]_vars

\* the last invocation of an unbroken chain on a mounted component: the hand has been
\* tracked since the first session started and the next frame is scheduled
C25_Witness ==
    /\ IsFrame
    /\ isActive
    /\ frames = MaxFrames
    /\ lastStep.kind = "hand"
    /\ ~lastStep.start
    /\ lifecycleLog = <<"start">>
    /\ rafCount = 1
    /\ requestRef = "pending"

====
